---- MODULE Spec2Model ----
(***************************************************************************)
(* Model of src/commands/mod.rs of the CLI: the four HTTP verb helpers     *)
(* (get, post, delete, patch), the settings transcoder                     *)
(* (serialize_settings / deserialize_settings), the manifest store         *)
(* (EdgeAppManifest::new / save_to_file) and the generic response          *)
(* formatter (format_value) with its seven resource view types.            *)
(*                                                                         *)
(* Four specifications share the module: SpecHttp, SpecSettings,           *)
(* SpecManifest and SpecFormat.  Each one drives its own variables and     *)
(* leaves the others at their initial value.                               *)
(*                                                                         *)
(* Every record constructor lists its fields in the order in which the     *)
(* field names first appear in this module, the order TLC keeps them in,   *)
(* so that TLC's workers never reorder a record value they share.          *)
(***************************************************************************)
EXTENDS Integers, Sequences, FiniteSets, TLC

VARIABLES
    call,       \* HTTP: the verb, the response and the log level of the last call
    result,     \* HTTP: what the last call returned
    trace,      \* HTTP: the observable steps of the last call, in program order
    settings,   \* transcoder: the Vec<Setting> last handed to serialize_settings
    doc,        \* transcoder: the settings mapping as it stands in the document
    origin,     \* transcoder: who wrote doc ("none", "encoded", "edited")
    decoded,    \* transcoder: what deserialize_settings last returned
    file,       \* manifest store: content of the file at path
    saved,      \* manifest store: the manifest last passed to save_to_file
    previous,   \* manifest store: content of the file before the last save
    loaded,     \* manifest store: what EdgeAppManifest::new last returned
    view,       \* formatter: the resource view type last formatted
    value,      \* formatter: the JSON value it held
    output      \* formatter: what format() returned

vars == <<call, result, trace, settings, doc, origin, decoded,
          file, saved, previous, loaded, view, value, output>>

httpVars     == <<call, result, trace>>
settingsVars == <<settings, doc, origin, decoded>>
manifestVars == <<file, saved, previous, loaded>>
formatVars   == <<view, value, output>>

(***************************************************************************)
(* serde_json::Value                                                       *)
(***************************************************************************)
JNull      == [t |-> "null"]
JBool(b)   == [t |-> "bool", b |-> b]
\* a number that as_u64() accepts
JU64(n)    == [t |-> "u64", n |-> n]
\* a negative integer: as_u64() is None, as_f64() is Some
JNeg(n)    == [t |-> "i64", n |-> n]
\* a floating point number, kept in tenths (129 is 12.9)
JF64(x)    == [t |-> "f64", tenths |-> x]
JStr(s)    == [t |-> "string", s |-> s]
JArr(a)    == [t |-> "array", items |-> a]
JObj(o)    == [t |-> "object", fields |-> o]

(***************************************************************************)
(* HTTP operation layer                                                    *)
(***************************************************************************)
OK         == 200
CREATED    == 201
NO_CONTENT == 204

\* Status codes the backend answers with in the model.
Statuses == {OK, CREATED, 202, NO_CONTENT, 404, 500}

\* Response bodies of the model and what serde_json::from_str makes of them.
Bodies == {"", "null", "[]", "{\"id\":\"a\"}", "<html>"}

ParseFailure == [t |-> "parse_failure"]

from_str(body) ==
    CASE body = "null"            -> JNull
      [] body = "[]"              -> JArr(<<>>)
      [] body = "{\"id\":\"a\"}"  -> JObj([id |-> JStr("a")])
      [] OTHER                    -> ParseFailure

\* What happened on the way to the response: build_client() failed, send()
\* failed, or a response arrived with a status and a body; textOk tells
\* whether reading the body with response.text() works.
Responses ==
    [body : Bodies, outcome : {"response"}, status : Statuses, textOk : BOOLEAN]
    \cup [body : {""}, outcome : {"client_error", "send_error"},
          status : {0}, textOk : {FALSE}]

NoValue == [t |-> "none"]
Unit    == [t |-> "unit"]

Success(v)  == [value |-> v,  ok |-> TRUE, error |-> "none", code |-> 0]
Failure(e)  == [value |-> NoValue, ok |-> FALSE, error |-> e, code |-> 0]
WrongResponseStatus(c) ==
    [value |-> NoValue, ok |-> FALSE, error |-> "WrongResponseStatus", code |-> c]

\* Steps a call leaves in trace.
ReadText(ok)     == [body |-> "", ok |-> ok, ev |-> "text", sink |-> "none"]
Printed(ok, b)   == [body |-> b, ok |-> ok, ev |-> "log", sink |-> "stdout"]
Debugged(b)      == [body |-> b, ok |-> TRUE, ev |-> "log", sink |-> "debug"]
ParsedBody(b)    == [body |-> b, ok |-> from_str(b) # ParseFailure, ev |-> "parse",
                     sink |-> "none"]
Returned         == [body |-> "", ok |-> TRUE, ev |-> "return", sink |-> "none"]

Outcome(steps, res) == [result |-> res, trace |-> Append(steps, Returned)]

\* What a failing build_client() returns: build_client is defined outside
\* this file, its error is the authentication error kind of the interface
\* contract.
BuildClientError == Failure("Authentication")

\* The `?` on build_client() and on send().  (The header value parsed before
\* them is a fixed, valid one: that `?` never returns.)
BeforeResponse(resp) ==
    IF resp.outcome = "client_error"
    THEN Outcome(<<>>, BuildClientError)
    ELSE Outcome(<<>>, Failure("Request"))

\* Ok(serde_json::from_str(&response.text()?)?)
ParseStrict(resp, steps) ==
    IF ~resp.textOk
    THEN Outcome(Append(steps, ReadText(FALSE)), Failure("Request"))
    ELSE LET s == steps \o <<ReadText(TRUE), ParsedBody(resp.body)>>
         IN  IF from_str(resp.body) = ParseFailure
             THEN Outcome(s, Failure("Parse"))
             ELSE Outcome(s, Success(from_str(resp.body)))

\* debug!("Response: {:?}", &response.text()?): the arguments are evaluated
\* only when the debug level is enabled, and the `?` then returns the
\* transport error of a failed body read.
DebugBodySilent(resp, debugEnabled, status) ==
    Outcome(<<>>, WrongResponseStatus(status))
DebugBody(resp, debugEnabled, status) ==
    IF ~debugEnabled
    THEN Outcome(<<>>, WrongResponseStatus(status))
    ELSE IF ~resp.textOk
         THEN Outcome(<<ReadText(FALSE)>>, Failure("Request"))
         ELSE Outcome(<<ReadText(TRUE), Debugged(resp.body)>>,
                      WrongResponseStatus(status))

get(resp, debugEnabled) ==
    IF resp.outcome # "response" THEN BeforeResponse(resp)
    ELSE IF resp.status # OK
         THEN Outcome(<<ReadText(resp.textOk),
                        Printed(resp.textOk, IF resp.textOk THEN resp.body ELSE "")>>,
                      WrongResponseStatus(resp.status))
         ELSE ParseStrict(resp, <<>>)

\* [StatusCode::CREATED, StatusCode::OK, StatusCode::NO_CONTENT]
PostAcceptedWide == {OK, CREATED, 202, NO_CONTENT}
PostAccepted == {OK, CREATED, NO_CONTENT}

post(resp, debugEnabled) ==
    IF resp.outcome # "response" THEN BeforeResponse(resp)
    ELSE IF resp.status \notin PostAccepted
         THEN DebugBody(resp, debugEnabled, resp.status)
         ELSE IF resp.status = NO_CONTENT
              THEN Outcome(<<>>, Success(JNull))
              ELSE ParseStrict(resp, <<>>)

delete(resp, debugEnabled) ==
    IF resp.outcome # "response" THEN BeforeResponse(resp)
    ELSE IF resp.status \notin {OK, NO_CONTENT}
         THEN Outcome(<<>>, WrongResponseStatus(resp.status))
         ELSE Outcome(<<>>, Success(Unit))

\* match serde_json::from_str(&response.text()?) { Ok(v) => Ok(v), Err(_) => Ok(Null) }
ParseLenientStrict(resp) == ParseStrict(resp, <<>>)
ParseLenient(resp) ==
    IF ~resp.textOk
    THEN Outcome(<<ReadText(FALSE)>>, Failure("Request"))
    ELSE LET s == <<ReadText(TRUE), ParsedBody(resp.body)>>
         IN  IF from_str(resp.body) = ParseFailure
             THEN Outcome(s, Success(JNull))
             ELSE Outcome(s, Success(from_str(resp.body)))

patch(resp, debugEnabled) ==
    IF resp.outcome # "response" THEN BeforeResponse(resp)
    ELSE IF resp.status # OK
         THEN DebugBody(resp, debugEnabled, resp.status)
         ELSE IF resp.status = NO_CONTENT
              THEN Outcome(<<>>, Success(JNull))
              ELSE ParseLenient(resp)

NoCall == [resp |-> [body |-> "", outcome |-> "none",
                                      status |-> 0, textOk |-> FALSE], debugEnabled |-> FALSE,
           verb |-> "none"]

Called(verb, resp, dbg) == [resp |-> resp, debugEnabled |-> dbg, verb |-> verb]

\* One action per verb: the whole call, from the request to the return.
Get ==
    /\ \E resp \in Responses, dbg \in BOOLEAN :
          /\ call'   = Called("GET", resp, dbg)
          /\ result' = get(resp, dbg).result
          /\ trace'  = get(resp, dbg).trace
    /\ UNCHANGED <<settingsVars, manifestVars, formatVars>>

Post ==
    /\ \E resp \in Responses, dbg \in BOOLEAN :
          /\ call'   = Called("POST", resp, dbg)
          /\ result' = post(resp, dbg).result
          /\ trace'  = post(resp, dbg).trace
    /\ UNCHANGED <<settingsVars, manifestVars, formatVars>>

Delete ==
    /\ \E resp \in Responses, dbg \in BOOLEAN :
          /\ call'   = Called("DELETE", resp, dbg)
          /\ result' = delete(resp, dbg).result
          /\ trace'  = delete(resp, dbg).trace
    /\ UNCHANGED <<settingsVars, manifestVars, formatVars>>

Patch ==
    /\ \E resp \in Responses, dbg \in BOOLEAN :
          /\ call'   = Called("PATCH", resp, dbg)
          /\ result' = patch(resp, dbg).result
          /\ trace'  = patch(resp, dbg).trace
    /\ UNCHANGED <<settingsVars, manifestVars, formatVars>>

(***************************************************************************)
(* Settings transcoder                                                     *)
(***************************************************************************)
\* Largest number of settings in a manifest of the model.
MaxSettings == 2

Titles   == {"B", "a", "ab"}
Types    == {"string", "secret"}
Defaults == {"", "stranger"}
Helps    == {"An example"}

\* The bytes of the strings used as titles: String orders by its bytes.
Bytes(s) ==
    CASE s = ""   -> <<>>
      [] s = "B"  -> <<66>>
      [] s = "a"  -> <<97>>
      [] s = "ab" -> <<97, 98>>
      [] s = "zz" -> <<122, 122>>

\* a < b for two byte strings (Ord for str: lexicographic, a proper prefix is less)
BytesLess(a, b) ==
    \E i \in 1..Len(b) :
        /\ i <= Len(a) + 1
        /\ \A j \in 1..(i - 1) : a[j] = b[j]
        /\ (i = Len(a) + 1 \/ a[i] < b[i])

TitleLess(x, y)      == BytesLess(Bytes(x), Bytes(y))

\* struct Setting
Setting == [type_ : Types, default_value : Defaults, title : Titles,
            optional : BOOLEAN, help_text : Helps]

SeqsUpTo(S, n) == UNION {[1..k -> S] : k \in 0..n}

SettingSeqs == SeqsUpTo(Setting, MaxSettings)

\* #[derive(Serialize)] for Setting: every field is emitted, title included.
SerializeSettingSkipTitle(s) ==
    [default_value |-> s.default_value, optional |-> s.optional,
     help_text |-> s.help_text, type |-> s.type_]
SerializeSetting(s) ==
    [default_value |-> s.default_value, title |-> s.title, optional |-> s.optional,
     help_text |-> s.help_text, type |-> s.type_]

\* One entry of an emitted mapping: the key and the value under it.
Entry(k, v) == [value |-> v, key |-> k]

\* serialize_map, then serialize_entry(&setting.title, &setting) per setting
serialize_settings(ss) ==
    [i \in 1..Len(ss) |-> Entry(ss[i].title, SerializeSetting(ss[i]))]

\* #[derive(Deserialize)] for Setting: type, optional and help_text are
\* required, default_value and title default to the empty string.
WellFormed(v) == {"type", "optional", "help_text"} \subseteq DOMAIN v

DeserializeSetting(v) ==
    [type_         |-> v.type,
     default_value |-> IF "default_value" \in DOMAIN v THEN v.default_value ELSE "",
     title         |-> IF "title" \in DOMAIN v THEN v.title ELSE "",
     optional      |-> v.optional,
     help_text     |-> v.help_text]

\* The HashMap<String, _> a mapping is read into: a later entry replaces an
\* earlier one with the same key.
Keys(d) == {d[i].key : i \in 1..Len(d)}
LastIndex(d, k) == CHOOSE i \in 1..Len(d) :
                       /\ d[i].key = k
                       /\ \A j \in (i + 1)..Len(d) : d[j].key # k
ToMap(d) == [k \in Keys(d) |-> d[LastIndex(d, k)].value]

\* The orders in which a HashMap with key set K can be iterated.
Orders(K) == {o \in [1..Cardinality(K) -> K] :
                 \A i, j \in 1..Cardinality(K) : o[i] = o[j] => i = j}

\* map.into_iter().map(|(title, mut setting)| { setting.title = title; setting })
InjectTitlesKeep(m, order) ==
    [i \in 1..Len(order) |-> DeserializeSetting(m[order[i]])]
InjectTitles(m, order) ==
    [i \in 1..Len(order) |->
        [DeserializeSetting(m[order[i]]) EXCEPT !.title = order[i]]]

\* Insert x behind the last element whose title is not greater: stable.
RECURSIVE InsertByTitle(_, _)
InsertByTitle(x, sorted) ==
    IF sorted = <<>> THEN <<x>>
    ELSE IF TitleLess(x.title, Head(sorted).title)
         THEN <<x>> \o sorted
         ELSE <<Head(sorted)>> \o InsertByTitle(x, Tail(sorted))

RECURSIVE SortFrom(_, _)
SortFrom(ss, acc) ==
    IF ss = <<>> THEN acc ELSE SortFrom(Tail(ss), InsertByTitle(Head(ss), acc))

\* settings.sort_by_key(|s| s.title.clone())
SortByTitleUnsorted(ss) == ss
SortByTitle(ss) == SortFrom(ss, <<>>)

DecodeOk(ss)  == [settings |-> ss, ok |-> TRUE, done |-> TRUE]
DecodeErr     == [settings |-> <<>>, ok |-> FALSE, done |-> TRUE]
NotDecoded    == [settings |-> <<>>, ok |-> FALSE, done |-> FALSE]

deserialize_settings(m, order) ==
    IF \E k \in DOMAIN m : ~WellFormed(m[k])
    THEN DecodeErr
    ELSE DecodeOk(SortByTitle(InjectTitles(m, order)))

\* Values a hand-edited document carries under a title: with or without a
\* title of their own, with or without a default value, and one value that
\* lacks the required type.
EditedValues ==
    [default_value : {"stranger"}, title : {"a", "zz"}, optional : BOOLEAN,
     help_text : Helps, type : {"string"}]
    \cup [default_value : {"stranger"}, optional : BOOLEAN,
          help_text : Helps, type : {"string"}]
    \cup [optional : BOOLEAN, help_text : Helps, type : {"string"}]
    \cup [optional : {FALSE}, help_text : Helps]

EditedDocs ==
    {d \in SeqsUpTo([value : EditedValues, key : Titles], MaxSettings) :
        \A i, j \in 1..Len(d) : d[i].key = d[j].key => i = j}

\* One command works on one settings collection: a new one is taken up
\* once the last one has been discarded.
Encode ==
    /\ origin = "none"
    /\ \E ss \in SettingSeqs :
          /\ settings' = ss
          /\ doc'      = serialize_settings(ss)
    /\ origin'  = "encoded"
    /\ decoded' = NotDecoded
    /\ UNCHANGED <<httpVars, manifestVars, formatVars>>

Edit ==
    /\ origin = "none"
    /\ \E d \in EditedDocs : doc' = d
    /\ settings' = <<>>
    /\ origin'   = "edited"
    /\ decoded'  = NotDecoded
    /\ UNCHANGED <<httpVars, manifestVars, formatVars>>

Decode ==
    /\ origin # "none"
    /\ \E order \in Orders(Keys(doc)) :
          decoded' = deserialize_settings(ToMap(doc), order)
    /\ UNCHANGED <<settings, doc, origin, httpVars, manifestVars, formatVars>>

\* The command ends and its values are dropped.
Discard ==
    /\ origin # "none"
    /\ settings' = <<>>
    /\ doc'      = <<>>
    /\ origin'   = "none"
    /\ decoded'  = NotDecoded
    /\ UNCHANGED <<httpVars, manifestVars, formatVars>>

(***************************************************************************)
(* Manifest store                                                          *)
(***************************************************************************)
\* struct EdgeAppManifest.  The store is exercised with the settings below;
\* the transcoder itself is exercised with all of Setting above.
StoredSetting == {x \in Setting : /\ x.type_ = "string"
                                  /\ x.default_value = "stranger"
                                  /\ x.title \in {"B", "ab"}
                                  /\ x.optional}

EdgeAppManifest ==
    [settings : SeqsUpTo(StoredSetting, MaxSettings), app_id : {"test_app", "other_app"}, user_version : {""},
     description : {""}, icon : {""}, author : {""},
     homepage_url : {""}]

\* The pieces a YAML text is made of: the document-start marker line, one
\* mapping, or text that is no YAML mapping.
DocStart      == [chunk |-> "---\n"]
Mapping(f)    == [fields |-> f, chunk |-> "mapping"]
Garbage       == [chunk |-> "garbage"]

\* serde_yaml::to_string(&manifest): one mapping, the settings field written
\* by serialize_settings.
to_string(m) ==
    <<Mapping([settings |-> serialize_settings(m.settings), app_id |-> m.app_id,
               user_version |-> m.user_version, description |-> m.description,
               icon |-> m.icon, author |-> m.author,
               homepage_url |-> m.homepage_url])>>

NoFile        == [exists |-> FALSE, content |-> <<>>]
FileOf(c)     == [exists |-> TRUE, content |-> c]

\* File::create(path): the file exists afterwards and is empty.
CreateAppend(f) == FileOf(f.content)
Create(f) == FileOf(<<>>)

\* write!(&manifest_file, "---\n{yaml}")
WriteManifest(f, yaml) == FileOf(f.content \o <<DocStart>> \o yaml)

NoManifest    == [ok |-> FALSE, error |-> "none", done |-> FALSE, manifest |-> <<>>]
Stored(m)     == [ok |-> TRUE, error |-> "none", done |-> TRUE, manifest |-> m]
StoreErr(e, m) == [ok |-> FALSE, error |-> e, done |-> TRUE, manifest |-> m]

\* save_to_file: io says which of File::create and write! fails, if any.
save_to_file(f, m, io) ==
    IF io = "create_fails"
    THEN [result |-> StoreErr("Io", m), file |-> f]
    ELSE IF io = "write_fails"
         THEN [result |-> StoreErr("Io", m), file |-> Create(f)]
         ELSE [result |-> Stored(m), file |-> WriteManifest(Create(f), to_string(m))]

RequiredKeys == {"app_id", "user_version", "description", "icon", "author",
                 "homepage_url"}

\* serde_yaml::from_str::<EdgeAppManifest>(&data): an optional document-start
\* marker, then exactly one mapping with the required keys; settings is read
\* through deserialize_settings and defaults to the empty sequence.
from_yaml(content, order) ==
    LET body == IF content # <<>> /\ Head(content) = DocStart
                THEN Tail(content) ELSE content
    IN  IF Len(body) # 1 \/ body[1].chunk # "mapping"
        THEN StoreErr("YamlParse", <<>>)
        ELSE LET f == body[1].fields
             IN  IF ~(RequiredKeys \subseteq DOMAIN f)
                 THEN StoreErr("YamlParse", <<>>)
                 ELSE LET ss == IF "settings" \in DOMAIN f
                                THEN deserialize_settings(ToMap(f.settings), order)
                                ELSE DecodeOk(<<>>)
                      IN  IF ~ss.ok
                          THEN StoreErr("YamlParse", <<>>)
                          ELSE Stored([settings |-> ss.settings,
                                       app_id |-> f.app_id,
                                       user_version |-> f.user_version,
                                       description |-> f.description, icon |-> f.icon,
                                       author |-> f.author,
                                       homepage_url |-> f.homepage_url])

SettingsKeys(content) ==
    LET body == IF content # <<>> /\ Head(content) = DocStart
                THEN Tail(content) ELSE content
    IN  IF Len(body) = 1 /\ body[1].chunk = "mapping"
           /\ "settings" \in DOMAIN body[1].fields
        THEN Keys(body[1].fields.settings)
        ELSE {}

\* EdgeAppManifest::new(path)
new(f, order) ==
    IF ~f.exists THEN StoreErr("Io", <<>>) ELSE from_yaml(f.content, order)

\* What else may stand in the file: nothing, text that is no YAML, a
\* hand-written manifest without marker and without settings, a manifest
\* lacking a required key.
HandWritten ==
    {<<>>, <<Garbage>>, <<DocStart, Garbage>>,
     <<Mapping([app_id |-> "test_app", user_version |-> "", description |-> "",
                icon |-> "", author |-> "", homepage_url |-> ""])>>,
     <<DocStart, Mapping([app_id |-> "test_app"])>>}

Save ==
    /\ \E m \in EdgeAppManifest, io \in {"ok", "create_fails", "write_fails"} :
          LET out == save_to_file(file, m, io)
          IN  /\ file'  = out.file
              /\ saved' = out.result
    /\ previous' = file
    /\ loaded'   = NoManifest
    /\ UNCHANGED <<httpVars, settingsVars, formatVars>>

Load ==
    /\ \E order \in Orders(SettingsKeys(file.content)) :
          loaded' = new(file, order)
    /\ UNCHANGED <<file, saved, previous, httpVars, settingsVars, formatVars>>

\* Somebody else writes the file.
WriteByHand ==
    /\ \E c \in HandWritten : file' = FileOf(c)
    /\ saved'    = NoManifest
    /\ previous' = NoFile
    /\ loaded'   = NoManifest
    /\ UNCHANGED <<httpVars, settingsVars, formatVars>>

(***************************************************************************)
(* Generic response formatter and the resource view types                  *)
(***************************************************************************)
\* Largest number of elements in a formatted array of the model.
MaxRows == 2

\* prettytable::Cell: its text and its alignment.
Cell(text)       == [text |-> text, align |-> "left"]
CellCenter(text) == [text |-> text, align |-> "center"]
CellRight(text)  == [text |-> text, align |-> "right"]

as_str_is_some(v)  == v.t = "string"
as_bool_or(v, d)   == IF v.t = "bool" THEN v.b ELSE d
as_u64_is_some(v)  == v.t = "u64"
as_u64_or(v, d)    == IF v.t = "u64" THEN v.n ELSE d
\* as_f64().unwrap_or(0.0) as u64: the float is truncated, a negative one is 0
as_f64_or_zero_as_u64(v) ==
    CASE v.t = "u64" -> v.n
      [] v.t = "i64" -> 0
      [] v.t = "f64" -> IF v.tenths < 0 THEN 0 ELSE v.tenths \div 10
      [] OTHER       -> 0

\* v[field]: Null unless v is an object that has the field
Index(v, field) ==
    IF v.t = "object" /\ field \in DOMAIN v.fields THEN v.fields[field] ELSE JNull

\* indicatif::HumanDuration(..).to_string(), for durations under a minute
HumanDuration(secs) ==
    IF secs = 1 THEN "1 second" ELSE ToString(secs) \o " seconds"

\* Cell::new(v.as_str().unwrap_or("N/A"))
StrOrEmpty(v) == Cell(IF as_str_is_some(v) THEN v.s ELSE "")
StrOrNA(v)    == Cell(IF as_str_is_some(v) THEN v.s ELSE "N/A")

\* The closures passed as value_transformer.  "check" and "cross" stand for
\* the check mark and the cross mark the code prints.
EdgeAppVersionsTransformer(field_name, field_value) ==
    IF field_name = "revision"
    THEN LET version == as_u64_or(field_value, 0)
         IN  Cell(IF version > 0 THEN ToString(version) ELSE "N/A")
    ELSE IF field_name = "published"
         THEN Cell(IF as_bool_or(field_value, FALSE) THEN "check" ELSE "cross")
         ELSE StrOrNA(field_value)

EdgeAppSettingsTransformerNA(field_name, field_value) ==
    IF field_name = "optional"
    THEN Cell(IF as_bool_or(field_value, FALSE) THEN "Yes" ELSE "No")
    ELSE StrOrNA(field_value)
EdgeAppSettingsTransformer(field_name, field_value) ==
    IF field_name = "optional"
    THEN Cell(IF as_bool_or(field_value, FALSE) THEN "Yes" ELSE "No")
    ELSE StrOrEmpty(field_value)

ScreensTransformer(field, v) ==
    IF field = "in_sync"
    THEN IF as_bool_or(v, FALSE) THEN CellCenter("check") ELSE CellCenter("cross")
    ELSE IF field = "uptime"
         THEN CellRight(IF as_u64_is_some(v) THEN HumanDuration(v.n) ELSE "N/A")
         ELSE StrOrNA(v)

PlaylistItemsTransformer(field, v) ==
    IF field = "duration"
    THEN Cell(HumanDuration(as_f64_or_zero_as_u64(v)))
    ELSE StrOrNA(v)

Transform(transformer, field, v) ==
    CASE transformer = "EdgeAppVersions" -> EdgeAppVersionsTransformer(field, v)
      [] transformer = "EdgeAppSettings" -> EdgeAppSettingsTransformer(field, v)
      [] transformer = "Screens"         -> ScreensTransformer(field, v)
      [] transformer = "PlaylistItems"   -> PlaylistItemsTransformer(field, v)

\* The cell of one field of one element: the transformer if there is one
\* ("None" otherwise), else the field as a string or "N/A".
DisplayValueEmpty(transformer, field, v) ==
    IF transformer # "None"
    THEN Transform(transformer, field, Index(v, field))
    ELSE StrOrEmpty(Index(v, field))
DisplayValue(transformer, field, v) ==
    IF transformer # "None"
    THEN Transform(transformer, field, Index(v, field))
    ELSE StrOrNA(Index(v, field))

TableRows(values, field_names, transformer) ==
    [r \in 1..Len(values) |->
        [c \in 1..Len(field_names) |->
            DisplayValue(transformer, field_names[c], values[r])]]

HeaderRow(column_names) == [c \in 1..Len(column_names) |-> Cell(column_names[c])]

Rendered(rows) == [rows |-> rows, mode |-> "table", json |-> JNull]
Pretty(v)      == [rows |-> <<>>, mode |-> "json", json |-> v]

format_value(output_type, column_names, field_names, v, transformer) ==
    IF output_type = "HumanReadable"
    THEN Rendered(<<HeaderRow(column_names)>>
                  \o (IF v.t = "array"
                      THEN TableRows(v.items, field_names, transformer)
                      ELSE <<>>))
    ELSE Pretty(v)

\* The seven bindings of headers, field keys and transformer.
Views == {"EdgeApps", "EdgeAppVersions", "EdgeAppSettings", "Assets", "Screens",
          "Playlists", "PlaylistItems"}

ColumnNames(w) ==
    CASE w = "EdgeApps"        -> <<"Id", "Title">>
      [] w = "EdgeAppVersions" -> <<"Revision", "Description", "Published">>
      [] w = "EdgeAppSettings" -> <<"Title", "Value", "Default value", "Optional",
                                    "Type", "Help text">>
      [] w = "Assets"          -> <<"Id", "Title", "Type", "Status">>
      [] w = "Screens"         -> <<"Id", "Name", "Hardware Version", "In Sync",
                                    "Last Ping", "Uptime">>
      [] w = "Playlists"       -> <<"Id", "Title">>
      [] w = "PlaylistItems"   -> <<"Asset Id", "Duration">>

FieldNames(w) ==
    CASE w = "EdgeApps"        -> <<"id", "name">>
      [] w = "EdgeAppVersions" -> <<"revision", "description", "published">>
      [] w = "EdgeAppSettings" -> <<"title", "value", "default_value", "optional",
                                    "type", "help_text">>
      [] w = "Assets"          -> <<"id", "title", "type", "status">>
      [] w = "Screens"         -> <<"id", "name", "hardware_version", "in_sync",
                                    "last_ping", "uptime">>
      [] w = "Playlists"       -> <<"id", "title">>
      [] w = "PlaylistItems"   -> <<"asset_id", "duration">>

Transformer(w) ==
    IF w \in {"EdgeAppVersions", "EdgeAppSettings", "Screens", "PlaylistItems"}
    THEN w ELSE "None"

format(w, v, output_type) ==
    format_value(output_type, ColumnNames(w), FieldNames(w), v, Transformer(w))

\* The JSON values handed to the views.  An element is an object with every
\* field a string, or that object with one field missing or of another JSON
\* type, or no object at all.  A value is an array of at most one such
\* element, an array of up to MaxRows elements of a few kinds, or no array.
Range(f) == {f[i] : i \in DOMAIN f}

OddValues == {JNull, JBool(TRUE), JBool(FALSE), JU64(0), JU64(5), JNeg(0 - 3),
              JF64(129), JArr(<<>>), JObj([id |-> JStr("x")])}

Complete(w) == [f \in Range(FieldNames(w)) |-> JStr("x")]

Without(w, f) == JObj([g \in Range(FieldNames(w)) \ {f} |-> JStr("x")])

Elements(w) ==
    {JObj(Complete(w))}
    \cup {Without(w, f) : f \in Range(FieldNames(w))}
    \cup {JObj([Complete(w) EXCEPT ![f] = odd]) :
             f \in Range(FieldNames(w)), odd \in OddValues}
    \cup {JNull, JStr("x")}

FewElements(w) == {JObj(Complete(w)), Without(w, FieldNames(w)[1]), JU64(5)}

ViewValues(w) ==
    {JArr(a) : a \in SeqsUpTo(Elements(w), 1)}
    \cup {JArr(a) : a \in SeqsUpTo(FewElements(w), MaxRows)}
    \cup {JNull, JObj(Complete(w))}

OutputTypes == {"HumanReadable", "Json"}

NoOutput == [rows |-> <<>>, mode |-> "none", json |-> JNull]

\* EdgeApps::new(value), ..., PlaylistItems::new(value): a command wraps the
\* value it got in one view.
NewView ==
    /\ view = "none"
    /\ \E w \in Views :
          \E v \in ViewValues(w) :
             /\ view'  = w
             /\ value' = v
    /\ output' = NoOutput
    /\ UNCHANGED <<httpVars, settingsVars, manifestVars>>

\* <view type>::format(&self, output_type), one action per view type
FormatEdgeApps ==
    /\ view = "EdgeApps"
    /\ \E ot \in OutputTypes : output' = format(view, value, ot)
    /\ UNCHANGED <<view, value, httpVars, settingsVars, manifestVars>>

FormatEdgeAppVersions ==
    /\ view = "EdgeAppVersions"
    /\ \E ot \in OutputTypes : output' = format(view, value, ot)
    /\ UNCHANGED <<view, value, httpVars, settingsVars, manifestVars>>

FormatEdgeAppSettings ==
    /\ view = "EdgeAppSettings"
    /\ \E ot \in OutputTypes : output' = format(view, value, ot)
    /\ UNCHANGED <<view, value, httpVars, settingsVars, manifestVars>>

FormatAssets ==
    /\ view = "Assets"
    /\ \E ot \in OutputTypes : output' = format(view, value, ot)
    /\ UNCHANGED <<view, value, httpVars, settingsVars, manifestVars>>

FormatScreens ==
    /\ view = "Screens"
    /\ \E ot \in OutputTypes : output' = format(view, value, ot)
    /\ UNCHANGED <<view, value, httpVars, settingsVars, manifestVars>>

FormatPlaylists ==
    /\ view = "Playlists"
    /\ \E ot \in OutputTypes : output' = format(view, value, ot)
    /\ UNCHANGED <<view, value, httpVars, settingsVars, manifestVars>>

FormatPlaylistItems ==
    /\ view = "PlaylistItems"
    /\ \E ot \in OutputTypes : output' = format(view, value, ot)
    /\ UNCHANGED <<view, value, httpVars, settingsVars, manifestVars>>

\* The command ends and the view is dropped.
DropView ==
    /\ view # "none"
    /\ view'   = "none"
    /\ value'  = JNull
    /\ output' = NoOutput
    /\ UNCHANGED <<httpVars, settingsVars, manifestVars>>

(***************************************************************************)
(* Specifications                                                          *)
(***************************************************************************)
Init ==
    /\ call     = NoCall
    /\ result   = Failure("none")
    /\ trace    = <<>>
    /\ settings = <<>>
    /\ doc      = <<>>
    /\ origin   = "none"
    /\ decoded  = NotDecoded
    /\ file     = NoFile
    /\ saved    = NoManifest
    /\ previous = NoFile
    /\ loaded   = NoManifest
    /\ view     = "none"
    /\ value    = JNull
    /\ output   = NoOutput

NextHttp     == Get \/ Post \/ Delete \/ Patch
NextSettings == Encode \/ Edit \/ Decode \/ Discard
NextManifest == Save \/ Load \/ WriteByHand
NextFormat   == \/ FormatEdgeApps \/ FormatEdgeAppVersions \/ FormatEdgeAppSettings
                \/ FormatAssets \/ FormatScreens \/ FormatPlaylists
                \/ FormatPlaylistItems \/ NewView \/ DropView

SpecHttp     == Init /\ [][NextHttp]_vars
SpecSettings == Init /\ [][NextSettings]_vars
SpecManifest == Init /\ [][NextManifest]_vars
SpecFormat   == Init /\ [][NextFormat]_vars

Next == NextHttp \/ NextSettings \/ NextManifest \/ NextFormat
Spec == Init /\ [][Next]_vars

(***************************************************************************)
(* HTTP operation layer: properties (checked under SpecHttp)               *)
(***************************************************************************)
\* A response arrived for the last call.
Responded    == call.verb # "none" /\ call.resp.outcome = "response"
Status       == call.resp.status
\* The body of the response could be read.
BodyRead     == call.resp.textOk
IsWrongStatus == ~result.ok /\ result.error = "WrongResponseStatus"
LogsBefore(i) == trace[i].ev = "log" /\ i < Len(trace) /\ trace[Len(trace)] = Returned

\* C1: a PATCH call whose response status is 204 returns JSON null as a
\* success, whatever the body.
C1_Patch204ReturnsNull ==
    (Responded /\ call.verb = "PATCH" /\ Status = NO_CONTENT)
        => result = Success(JNull)

\* C2: for every status and every body that is read, GET succeeds only on
\* 200, POST only on 200, 201 or 204, DELETE only on 200 or 204 (and then
\* returns no value); any other status on GET, POST or DELETE, and any
\* status but 200 and 204 on PATCH, fails with WrongResponseStatus carrying
\* exactly that code: no other error kind, no success.
C2_StatusClassification ==
    (Responded /\ BodyRead) =>
        /\ call.verb = "GET" =>
              /\ result.ok => Status = OK
              /\ Status # OK => result = WrongResponseStatus(Status)
        /\ call.verb = "POST" =>
              /\ result.ok => Status \in {OK, CREATED, NO_CONTENT}
              /\ Status \notin {OK, CREATED, NO_CONTENT}
                    => result = WrongResponseStatus(Status)
        /\ call.verb = "DELETE" =>
              /\ result.ok => (Status \in {OK, NO_CONTENT} /\ result.value = Unit)
              /\ Status \notin {OK, NO_CONTENT}
                    => result = WrongResponseStatus(Status)
        /\ call.verb = "PATCH" =>
              (Status \notin {OK, NO_CONTENT} => result = WrongResponseStatus(Status))

C2_Witness ==
    /\ Responded /\ BodyRead /\ call.debugEnabled
    /\ call.verb = "POST" /\ Status = 202
    /\ result = WrongResponseStatus(202)

\* C6 as stated: for each of the four verbs, whenever the call returns
\* WrongResponseStatus, the raw response body was logged earlier in the call
\* (taken where it is most favourable: the body can be read and debug
\* logging is enabled).
C6_AllFourLogBody ==
    (Responded /\ IsWrongStatus /\ BodyRead /\ call.debugEnabled) =>
        \E i \in 1..Len(trace) :
            LogsBefore(i) /\ trace[i].ok /\ trace[i].body = call.resp.body

\* C6 amended: when GET returns WrongResponseStatus it has printed the
\* outcome of reading the body to stdout before (the raw body if it could be
\* read); when POST or PATCH returns WrongResponseStatus with debug logging
\* enabled it has logged the raw body at debug level before, and with debug
\* logging disabled it has logged nothing; DELETE logs nothing.
C6_LogBeforeWrongStatus ==
    (Responded /\ IsWrongStatus) =>
        /\ call.verb = "GET" =>
              \E i \in 1..Len(trace) :
                  /\ LogsBefore(i) /\ trace[i].sink = "stdout"
                  /\ trace[i].ok = BodyRead
                  /\ BodyRead => trace[i].body = call.resp.body
        /\ (call.verb \in {"POST", "PATCH"} /\ call.debugEnabled) =>
              \E i \in 1..Len(trace) :
                  /\ LogsBefore(i) /\ trace[i].sink = "debug"
                  /\ trace[i].body = call.resp.body
        /\ (call.verb \in {"POST", "PATCH"} /\ ~call.debugEnabled) =>
              \A i \in 1..Len(trace) : trace[i].ev # "log"
        /\ call.verb = "DELETE" =>
              \A i \in 1..Len(trace) : trace[i].ev # "log"

C6_Witness ==
    /\ Responded /\ IsWrongStatus /\ call.verb = "PATCH" /\ call.debugEnabled
    /\ Status = 500 /\ call.resp.body = "<html>"
    /\ trace = <<ReadText(TRUE), Debugged("<html>"), Returned>>

\* C7: when the body is not valid JSON, PATCH with status 200 returns JSON
\* null and PATCH never returns a Parse error; GET with 200 and POST with 200
\* or 201 fail with a Parse error; POST with 204 returns JSON null and makes
\* no attempt to parse the body.
C7_UnparsableBody ==
    /\ call.verb = "PATCH" => result.error # "Parse"
    /\ (Responded /\ call.verb = "POST" /\ Status = NO_CONTENT) =>
          /\ result = Success(JNull)
          /\ \A i \in 1..Len(trace) : trace[i].ev \notin {"parse", "text"}
    /\ (Responded /\ BodyRead /\ from_str(call.resp.body) = ParseFailure) =>
          /\ (call.verb = "PATCH" /\ Status = OK) => result = Success(JNull)
          /\ (call.verb = "GET" /\ Status = OK) => result = Failure("Parse")
          /\ (call.verb = "POST" /\ Status \in {OK, CREATED})
                => result = Failure("Parse")

C7_Witness ==
    /\ Responded /\ BodyRead /\ call.verb = "PATCH" /\ Status = OK
    /\ call.resp.body = "<html>"
    /\ result = Success(JNull)
    /\ \E i \in 1..Len(trace) : trace[i].ev = "parse" /\ ~trace[i].ok

(***************************************************************************)
(* Settings transcoder: properties (checked under SpecSettings)            *)
(***************************************************************************)
\* ss is sorted ascending by title and its titles are pairwise distinct.
SortedUnique(ss) ==
    \A i \in 1..(Len(ss) - 1) : TitleLess(ss[i].title, ss[i + 1].title)

Encoded == origin = "encoded"

C4_RoundTrip ==
    (Encoded /\ decoded.done /\ SortedUnique(settings)) =>
        /\ decoded.ok
        /\ decoded.settings = settings

C4_Witness ==
    /\ Encoded /\ decoded.done /\ decoded.ok
    /\ Len(settings) = 2
    /\ settings[1].title = "B" /\ settings[2].title = "ab"
    /\ settings[1].default_value = "" /\ settings[2].optional
    /\ decoded.settings = settings

\* C5: decoding a settings map yields a sequence sorted ascending by title,
\* one record per map key, each with its title equal to the key it came from
\* whatever title its value carries, and the same sequence for every order in
\* which the map is iterated.
C5_DecodeCanonical ==
    (decoded.done /\ decoded.ok) =>
        LET m  == ToMap(doc)
            ss == decoded.settings
        IN  /\ SortedUnique(ss)
            /\ Len(ss) = Cardinality(DOMAIN m)
            /\ \A i \in 1..Len(ss) :
                  /\ ss[i].title \in DOMAIN m
                  /\ ss[i].type_ = m[ss[i].title].type
                  /\ ss[i].default_value =
                        (IF "default_value" \in DOMAIN m[ss[i].title]
                         THEN m[ss[i].title].default_value ELSE "")
                  /\ ss[i].optional = m[ss[i].title].optional
                  /\ ss[i].help_text = m[ss[i].title].help_text
            /\ \A order \in Orders(DOMAIN m) :
                  deserialize_settings(m, order) = decoded

C5_Witness ==
    /\ origin = "edited" /\ decoded.done /\ decoded.ok
    /\ Len(doc) = 2
    /\ doc[1].key = "ab" /\ doc[2].key = "B"
    /\ "title" \in DOMAIN doc[2].value /\ doc[2].value.title = "zz"
    /\ decoded.settings[1].title = "B" /\ decoded.settings[2].title = "ab"

(***************************************************************************)
(* Manifest store: properties (checked under SpecManifest)                 *)
(***************************************************************************)
\* C9: after save_to_file succeeds the file holds exactly the document-start
\* marker line followed by the YAML encoding of the manifest, its settings a
\* mapping keyed by title, whatever the file held before; loading that file
\* returns a manifest equal to the saved one whenever its settings are sorted
\* by title with distinct titles.
C9_SaveThenLoad ==
    (saved.done /\ saved.ok) =>
        /\ file.exists
        /\ Len(file.content) = 2
        /\ file.content[1] = DocStart
        /\ <<file.content[2]>> = to_string(saved.manifest)
        /\ LET f == file.content[2].fields
           IN  /\ f.app_id = saved.manifest.app_id
               /\ Len(f.settings) = Len(saved.manifest.settings)
               /\ \A i \in 1..Len(f.settings) :
                     f.settings[i].key = saved.manifest.settings[i].title
        /\ (loaded.done /\ SortedUnique(saved.manifest.settings)) =>
              /\ loaded.ok
              /\ loaded.manifest = saved.manifest

C9_Witness ==
    /\ saved.done /\ saved.ok
    /\ previous.exists /\ previous.content = <<DocStart, Garbage>>
    /\ loaded.done /\ loaded.ok
    /\ Len(saved.manifest.settings) = 2
    /\ loaded.manifest = saved.manifest

(***************************************************************************)
(* Formatter: properties (checked under SpecFormat)                        *)
(***************************************************************************)
InTable  == view # "none" /\ output.mode = "table"
Fields   == FieldNames(view)
Rows     == IF value.t = "array" THEN value.items ELSE <<>>

\* The field is a key of the element and holds a JSON string.
HoldsString(element, field) ==
    /\ element.t = "object"
    /\ field \in DOMAIN element.fields
    /\ element.fields[field].t = "string"

\* The field is no key of the element, or holds null.
AbsentOrNull(element, field) ==
    \/ element.t # "object"
    \/ field \notin DOMAIN element.fields
    \/ element.fields[field].t = "null"

\* The cell of row r (the header is row 0) and column c of the table.
CellText(r, c) == output.rows[r + 1][c].text

\* C8: with no transformer the table has one header row and one row per
\* element of the array (the header row alone when the value is no array),
\* every row has one cell per field key, in their order, and a cell is the
\* field's string when the field holds a JSON string and "N/A" when the
\* field is absent, null, a boolean, a number, an array or an object.
C8_PlainTable ==
    (InTable /\ view \in {"EdgeApps", "Assets", "Playlists"}) =>
        /\ Len(output.rows) = 1 + Len(Rows)
        /\ value.t # "array" => Len(output.rows) = 1
        /\ Len(output.rows[1]) = Len(ColumnNames(view))
        /\ \A c \in 1..Len(ColumnNames(view)) :
              output.rows[1][c].text = ColumnNames(view)[c]
        /\ \A r \in 1..Len(Rows) :
              /\ Len(output.rows[r + 1]) = Len(Fields)
              /\ \A c \in 1..Len(Fields) :
                    CellText(r, c) =
                        (IF HoldsString(Rows[r], Fields[c])
                         THEN Rows[r].fields[Fields[c]].s
                         ELSE "N/A")

C8_Witness ==
    /\ InTable /\ view = "Assets"
    /\ Len(Rows) = 1
    /\ Rows[1].t = "object"
    /\ "status" \notin DOMAIN Rows[1].fields
    /\ CellText(1, 4) = "N/A"
    /\ CellText(1, 1) = "x"

\* The fields the transformers treat on their own.
SpecialCased ==
    {"revision", "published", "optional", "in_sync", "uptime", "duration"}

\* C10 as stated, taken on the fields that are not special-cased: for each
\* of the seven view types in table mode, such a field gives the cell "N/A"
\* when it is absent or null.
C10_AlwaysNA ==
    InTable =>
        \A r \in 1..Len(Rows) : \A c \in 1..Len(Fields) :
            (Fields[c] \notin SpecialCased /\ AbsentOrNull(Rows[r], Fields[c]))
                => CellText(r, c) = "N/A"

\* C10 amended: for each of the seven view types the table has one row per
\* element, one cell per field key; a field that is absent, null or no JSON
\* string gives "N/A" in every column that is not special-cased, except for
\* EdgeAppSettings, where it gives the empty text; an absent or null field
\* gives "N/A" in the revision and uptime columns, the negative mark in the
\* published, in_sync and optional columns, and the duration of 0 seconds in
\* the duration column.
C10_Fallbacks ==
    InTable =>
        /\ Len(output.rows) = 1 + Len(Rows)
        /\ \A r \in 1..Len(Rows) :
              /\ Len(output.rows[r + 1]) = Len(Fields)
              /\ \A c \in 1..Len(Fields) :
                    /\ (Fields[c] \notin SpecialCased
                        /\ ~HoldsString(Rows[r], Fields[c])) =>
                          CellText(r, c) =
                              (IF view = "EdgeAppSettings" THEN "" ELSE "N/A")
                    /\ (Fields[c] \in {"revision", "uptime"}
                        /\ AbsentOrNull(Rows[r], Fields[c])) =>
                          CellText(r, c) = "N/A"
                    /\ (Fields[c] \in {"published", "in_sync"}
                        /\ AbsentOrNull(Rows[r], Fields[c])) =>
                          CellText(r, c) = "cross"
                    /\ (Fields[c] = "optional"
                        /\ AbsentOrNull(Rows[r], Fields[c])) =>
                          CellText(r, c) = "No"
                    /\ (Fields[c] = "duration"
                        /\ AbsentOrNull(Rows[r], Fields[c])) =>
                          CellText(r, c) = "0 seconds"

C10_Witness ==
    /\ InTable /\ view = "EdgeAppSettings"
    /\ Len(Rows) = 1
    /\ Rows[1].t = "object"
    /\ "value" \notin DOMAIN Rows[1].fields
    /\ CellText(1, 2) = ""
    /\ CellText(1, 1) = "x"

====
